---- MODULE Spec2Model ----
(***************************************************************************)
(* State-machine model of the REST route modules of TrabalhoAPIrest:       *)
(* students, teachers, users, appointments, profissionais and events.      *)
(* Every route module owns one collection (a JavaScript array of objects)  *)
(* and, for the file-backed modules, one JSON file.  No handler of one     *)
(* module touches the collection of another, so a behaviour of this model  *)
(* follows ONE route module, chosen in Init (variable `variant`).          *)
(*                                                                         *)
(* Conventions                                                             *)
(*   - a JavaScript object is a sequence of <<key, value>> pairs with      *)
(*     distinct keys, in property (insertion) order, which is the order    *)
(*     `for (const campo in obj)` and JSON.stringify follow;               *)
(*   - array positions are 1-based; findIndex's -1 is 0 here;              *)
(*   - values are strings; Undef stands for JavaScript's undefined.        *)
(***************************************************************************)
EXTENDS Naturals, Sequences, FiniteSets

VARIABLES
    variant,    \* the route module this behaviour follows
    db,         \* the module-level array (studentsDB, teachersDB, ...)
    file,       \* the JSON file of the collection
    nextUuid,   \* how many uuids uuidv4() has produced so far, plus one
    now,        \* Date.now(), in clock ticks
    pending,    \* users handlers suspended at `await bcrypt.hash(...)`
    fails,      \* how many file writes have failed so far
    last        \* the latest request that was answered, with its response

vars == <<variant, db, file, nextUuid, now, pending, fails, last>>

----------------------------------------------------------------------------
(* Bounds of the model *)

\* longest collection a POST may still extend
MaxLen == 2
\* how many ids uuidv4() may produce in one behaviour
MaxUuid == 2
\* how many ticks the clock may advance in one behaviour
MaxClock == 1
\* how many users handlers may wait for bcrypt.hash at the same time
MaxPending == 1
\* how many file writes may fail in one behaviour
MaxFail == 1

----------------------------------------------------------------------------
(* The route modules *)

StudentsMem      == "studentsRoutes.js"
StudentsFile     == "part_001"
TeachersMem      == "part_000"
TeachersFile     == "teachersRoutes.js"
UsersMem         == "usersRoutes.js"
AppointmentsFile == "appointmentsRoutes.js:1-333"
AppointmentsMem  == "appointmentsRoutes.js:335-695"
Profissionais    == "profissionaisRoutes.js"
Events           == "appointmentsRoutes.js:697-930"

\* modules that require() the JSON file once and never write it
MemVariants == {StudentsMem, TeachersMem, UsersMem, AppointmentsMem}
\* modules with loadX()/saveX() around a module-level array
FileVariants == {StudentsFile, TeachersFile, AppointmentsFile, Profissionais}
Variants == MemVariants \cup FileVariants \cup {Events}

Undef == "<undefined>"

\* the fields a record of the resource must have, in the order the handlers
\* test them (for the modules without tests: the schema's `required` list)
RequiredFields(v) ==
    CASE v \in {StudentsMem, StudentsFile} ->
           <<"name", "age", "parents", "phone_number", "special_needs", "status">>
      [] v \in {TeachersMem, TeachersFile} ->
           <<"name", "school_disciplines", "contact", "phone_number", "status">>
      [] v = UsersMem ->
           <<"name", "email", "user", "pwd", "level", "status">>
      [] v \in {AppointmentsMem, AppointmentsFile} ->
           <<"specialty", "comments", "date", "student", "professional">>
      [] v = Profissionais -> <<"nome", "client">>
      [] v = Events -> <<"description">>

\* the properties a request body is documented to carry, in schema order
BodyFields(v) ==
    CASE v = Profissionais ->
           <<"nome", "client", "service", "date", "status", "comments">>
      [] v = Events -> <<"description", "comments", "date">>
      [] OTHER -> RequiredFields(v)

Range(s) == {s[i] : i \in DOMAIN s}

\* camposValidos
camposValidos(v) == {"id"} \cup Range(BodyFields(v))

----------------------------------------------------------------------------
(* JavaScript objects *)

Keys(o) == [i \in DOMAIN o |-> o[i][1]]

Has(o, k) == \E i \in DOMAIN o : o[i][1] = k

\* o.k
Get(o, k) ==
    IF Has(o, k) THEN o[CHOOSE i \in DOMAIN o : o[i][1] = k][2] ELSE Undef

\* o.k = x : an existing property keeps its position, a new one goes last
SetProp(o, k, x) ==
    IF Has(o, k)
    THEN [i \in DOMAIN o |-> IF o[i][1] = k THEN <<k, x>> ELSE o[i]]
    ELSE Append(o, <<k, x>>)

\* !x for the values of the model: undefined and "" are falsy
Falsy(x) == x = Undef \/ x = ""

\* o without property k
Without(o, k) == SelectSeq(o, LAMBDA p : p[1] # k)

\* the object as a map: its keys and their values, order forgotten
AsMap(o) == {<<o[i][1], o[i][2]>> : i \in DOMAIN o}

\* the first position of the sequence of booleans `hits` that holds TRUE, 0
\* if none: Array.prototype.findIndex over the results of its callback,
\* whose -1 is 0 here
FirstPos(hits) ==
    IF \E i \in DOMAIN hits : hits[i]
    THEN CHOOSE i \in DOMAIN hits : hits[i] /\ \A j \in 1..(i - 1) : ~hits[j]
    ELSE 0

\* JSON.stringify of an object: a property whose value is undefined is left out
StringifyObj(o) == SelectSeq(o, LAMBDA p : p[2] # Undef)

\* JSON.stringify(array, null, 2), as the array JSON.parse gives back for it
Stringify(arr) == [i \in DOMAIN arr |-> StringifyObj(arr[i])]

\* { id: g, ...body } : id comes first; a body that has its own id overrides g
SpreadWithId(g, body) ==
    <<<<"id", IF Has(body, "id") THEN Get(body, "id") ELSE g>>>>
        \o Without(body, "id")

----------------------------------------------------------------------------
(* Identifiers *)

\* the strings uuidv4() returns, in the order of the calls: uuidv4() never
\* returns a string it returned before, nor one that is already in use
UuidTable == <<"uuid-1", "uuid-2", "uuid-3", "uuid-4", "uuid-5", "uuid-6">>

uuidv4(n) == UuidTable[n]

\* Date.now().toString(): one decimal string per clock value
DateNowToString(t) ==
    <<"1633072800000", "1633072800001", "1633072800002", "1633072800003",
      "1633072800004">>[t + 1]

\* the id of the record the JSON file holds when the server starts: made by an
\* earlier run of the same generator
SeedId(v) == IF v = Events THEN "1633072799999" ELSE "uuid-0"

\* an id no generator of the program produced
ForeignId == "client-id"

\* the ids a client can put in the path of a request: the ids of the records
\* that are stored in memory or in the file, the id of the latest request,
\* and one of its own making
ClientIds ==
    ({ForeignId, last.id}
        \cup {Get(db[i], "id") : i \in DOMAIN db}
        \cup {Get(file.data[i], "id") : i \in DOMAIN file.data}) \ {Undef}

----------------------------------------------------------------------------
(* Request bodies *)

\* keys that no camposValidos list has
UnknownKeys == {<<>>, <<"extra">>, <<"extra", "other">>, <<"other", "extra">>}

\* the documented properties except those in `missing`; those in `empty` hold
\* "", the others hold `tag`; then the keys of `unknown`; `id` first if given
MakeBody(v, id, tag, missing, empty, unknown) ==
    LET fs   == SelectSeq(BodyFields(v), LAMBDA f : f \notin missing)
        base == [i \in DOMAIN fs |->
                    <<fs[i], IF fs[i] \in empty THEN "" ELSE tag>>]
        more == [i \in DOMAIN unknown |-> <<unknown[i], tag>>]
        head == IF id = Undef THEN <<>> ELSE <<<<"id", id>>>>
    IN  head \o base \o more

\* the request bodies of the model.  For every module: the documented body
\* with two sets of values that differ in letter case only ("a" and "A"), one
\* of them with an id of the client's; the body
\* without its last required field; the body with an unknown key.  For the
\* modules that store the body as it comes, also: the first body with an id
\* of the client's.  For the modules that test the body and do not wait,
\* also: the body without each field in turn, with an empty first field, with
\* two unknown keys in both orders, and with a missing field and an unknown
\* key at once.
Bodies(v) ==
    {MakeBody(v, Undef, "a", {}, {}, <<>>),
     MakeBody(v, ForeignId, "A", {}, {}, <<>>),
     MakeBody(v, Undef, "a", {RequiredFields(v)[Len(RequiredFields(v))]}, {}, <<>>),
     MakeBody(v, Undef, "a", {}, {}, <<"extra">>)}
    \cup (IF v \in FileVariants THEN {MakeBody(v, ForeignId, "a", {}, {}, <<>>)} ELSE {})
    \cup (IF v \notin MemVariants \ {UsersMem} THEN {} ELSE
            {MakeBody(v, Undef, "a", {f}, {}, <<>>) : f \in Range(BodyFields(v))}
            \cup {MakeBody(v, Undef, "a", {}, {RequiredFields(v)[1]}, <<>>)}
            \cup {MakeBody(v, Undef, "a", {}, {}, u) : u \in UnknownKeys \ {<<>>}}
            \cup {MakeBody(v, Undef, "a", {RequiredFields(v)[1]}, {}, <<"extra">>)})

----------------------------------------------------------------------------
(* Responses *)

\* (the texts are the source's with the accents dropped)
\* the "erro" text of the i-th required-field test of a validating module
MissingMessage(v, i) ==
    CASE v = StudentsMem ->
           <<"Estudante precisa ter um 'nome'",
             "Estudante precisa ter uma 'idade'",
             "Estudante precisa ter 'pais'",
             "Estudante precisa ter um 'numero de telefone'",
             "Estudante precisa ter 'necessidades especiais'",
             "Estudante precisa ter um 'status'">>[i]
      [] v = TeachersMem ->
           <<"Professor precisa ter um 'nome'",
             "Professor precisa ter 'disciplinas escolares'",
             "Professor precisa ter um 'contato'",
             "Professor precisa ter um 'numero de telefone'",
             "Professor precisa ter um 'status'">>[i]
      [] v = UsersMem ->
           <<"Usuario precisa ter um 'nome'",
             "Usuario precisa ter um 'email'",
             "Usuario precisa ter um 'username'",
             "Usuario precisa ter um 'password'",
             "Usuario precisa ter um 'nivel'",
             "Usuario precisa ter um 'status'">>[i]
      [] v = AppointmentsMem ->
           <<"Agendamento precisa ter uma 'especialidade'",
             "Agendamento precisa ter 'comentarios'",
             "Agendamento precisa ter uma 'data'",
             "Agendamento precisa ter um 'aluno'",
             "Agendamento precisa ter um 'profissional'">>[i]

\* `Campo '${campo}' nao e valido`: the text names the key
InvalidMessage(campo) == "Campo '" \o campo \o "' nao e valido"

\* the text of a 404 answer, per module and route
NotFoundMessage(v, op) ==
    CASE v = StudentsMem -> "Estudante nao encontrado"
      [] v = TeachersMem -> "Professor nao encontrado"
      [] v = UsersMem -> "Usuario nao encontrado"
      [] v = AppointmentsMem -> "Agendamento nao encontrado"
      [] v = StudentsFile ->
           IF op = "GET" THEN "Estudante nao encontrado"
           ELSE IF op = "PUT" THEN "Estudante nao encontrado!"
           ELSE "Student nao encontrado!"
      [] v = TeachersFile ->
           IF op = "GET" THEN "Professor nao encontrado"
           ELSE "Professor nao encontrado!"
      [] v = AppointmentsFile ->
           IF op = "GET" THEN "Agendamento nao encontrado"
           ELSE IF op = "PUT" THEN "Agendamento nao encontrado!"
           ELSE "Apointment nao encontrado!"
      [] v = Profissionais -> "Profissional nao encontrado!"
      [] v = Events -> "Evento nao encontrado"

\* a request and its answer.  op, id, body: the request.  status: the HTTP
\* status.  shape: what the body of the answer is ("object": one record,
\* "array": an array of records, "error": an error text, "none": no body).
\* ret: the records of the answer.  err: the error text.
Answer(op, id, body, status, shape, ret, err) ==
    [op |-> op, id |-> id, body |-> body, status |-> status,
     shape |-> shape, ret |-> ret, err |-> err]

\* res.json(record): the record as JSON.stringify writes it
JsonObject(op, id, body, status, rec) ==
    Answer(op, id, body, status, "object", <<StringifyObj(rec)>>, "")

\* res.json(array)
JsonArray(op, id, body, status, arr) ==
    Answer(op, id, body, status, "array", Stringify(arr), "")

\* res.status(code).json({ erro: text }) and res.status(code).send(text)
ErrorAnswer(op, id, body, status, text) ==
    Answer(op, id, body, status, "error", <<>>, text)

\* a handler that throws: express answers 500
Thrown(op, id, body) == ErrorAnswer(op, id, body, 500, "Internal Server Error")

----------------------------------------------------------------------------
(* The JSON file *)

\* a file that holds the JSON text of `arr`
FileOf(arr) == [ok |-> TRUE, data |-> arr]

\* a file that is missing, or whose text is not JSON
BadFile == [ok |-> FALSE, data |-> <<>>]

\* loadTeachers, loadStudents, loadAppointments, loadProfissionais:
\* JSON.parse(fs.readFileSync(path)), [] when either throws
loadFile(f) == IF f.ok THEN f.data ELSE <<>>

\* what fs.writeFileSync(path, text) can do to the file: write it; fail before
\* the file is opened and leave it as it was; fail after the file was
\* truncated and leave a text that is not JSON
WriteOutcomes == {"written", "untouched", "truncated"}

\* w is the outcome of the write of a handler that writes; a handler that
\* answers before it writes is given "written", which it does not use
WriteAllowed(w) == w = "written" \/ fails < MaxFail

FileAfterWrite(w, arr) ==
    CASE w = "written" -> FileOf(Stringify(arr))
      [] w = "untouched" -> file
      [] w = "truncated" -> BadFile

FailsAfterWrite(w) == IF w = "written" THEN fails ELSE fails + 1

----------------------------------------------------------------------------
(* Lookups *)

\* arr.findIndex(x => x.id === id)
findIndexById(arr, id) == FirstPos([i \in DOMAIN arr |-> Get(arr[i], "id") = id])

\* the ids of the records of arr, one per position
IdsOf(arr) == [i \in DOMAIN arr |-> Get(arr[i], "id")]

\* the first required field that is falsy in o, as a position of
\* RequiredFields; 0 if none: the chain of `if (!o.field) return 400`
FirstMissing(v, o) ==
    LET req == RequiredFields(v) IN
    IF \E i \in DOMAIN req : Falsy(Get(o, req[i]))
    THEN CHOOSE i \in DOMAIN req :
            /\ Falsy(Get(o, req[i]))
            /\ \A j \in 1..(i - 1) : ~Falsy(Get(o, req[j]))
    ELSE 0

\* the first key of o, in property order, that camposValidos does not
\* include; 0 if none: the `for (const campo in o)` loop
FirstInvalid(v, o) == FirstPos([i \in DOMAIN o |-> Keys(o)[i] \notin camposValidos(v)])

----------------------------------------------------------------------------
(* The initial state *)

\* a record as an earlier run stored it
SeedRecord(v) ==
    LET r == SpreadWithId(SeedId(v), MakeBody(v, Undef, "a", {}, {}, <<>>))
    IN  IF v = UsersMem THEN SetProp(r, "pwd", "$2b$10$" \o "s0" \o "$" \o "a") ELSE r

\* the JSON file when the server starts.  A module that require()s the file
\* does not start without it; the others start with any file.
InitFiles(v) ==
    {FileOf(<<>>), FileOf(<<SeedRecord(v)>>)}
        \cup (IF v \in MemVariants THEN {} ELSE {BadFile})

NoRequest == Answer("NONE", Undef, <<>>, 0, "none", <<>>, "")

Init ==
    /\ variant \in Variants
    /\ file \in InitFiles(variant)
    /\ db = IF variant = Events THEN <<>> ELSE loadFile(file)
    /\ nextUuid = 1
    /\ now = 0
    /\ pending = {}
    /\ fails = 0
    /\ last = NoRequest

----------------------------------------------------------------------------
(* Handlers of the file-backed modules: teachersRoutes.js, part_001,       *)
(* appointmentsRoutes.js lines 1-333, profissionaisRoutes.js.  The four    *)
(* modules have the same handlers up to the names.                         *)

\* a POST that gives up when saveX() reports "Erro ao salvar": the array in
\* memory is loaded again from the file and the answer is 500
FilePostAborting(body, w) ==
    LET newRec == SpreadWithId(uuidv4(nextUuid), body)
        arr    == Append(loadFile(file), newRec)
    IN  /\ variant \in FileVariants
        /\ nextUuid <= MaxUuid
        /\ Len(loadFile(file)) < MaxLen
        /\ WriteAllowed(w)
        /\ file' = FileAfterWrite(w, arr)
        /\ db' = IF w = "written" THEN arr ELSE loadFile(file')
        /\ fails' = FailsAfterWrite(w)
        /\ nextUuid' = nextUuid + 1
        /\ last' = IF w = "written" THEN JsonObject("POST", Undef, body, 200, newRec)
                   ELSE Thrown("POST", Undef, body)
        /\ UNCHANGED <<variant, now, pending>>

\* router.post('/'): newX = { id: uuidv4(), ...req.body }; xDB = loadX();
\* xDB.push(newX); saveX(); res.json(newX)
FilePost(body, w) ==
    LET newRec == SpreadWithId(uuidv4(nextUuid), body)
        arr    == Append(loadFile(file), newRec)
    IN  /\ variant \in FileVariants
        /\ nextUuid <= MaxUuid
        /\ Len(loadFile(file)) < MaxLen
        /\ WriteAllowed(w)
        /\ db' = arr
        /\ file' = FileAfterWrite(w, arr)
        /\ fails' = FailsAfterWrite(w)
        /\ nextUuid' = nextUuid + 1
        /\ last' = JsonObject("POST", Undef, body, 200, newRec)
        /\ UNCHANGED <<variant, now, pending>>

\* router.put: xDB = loadX(); find and findIndex by id; 404 if not found;
\* xDB[currentIndex] = req.body; saveX(); res.json(req.body)
FilePut(id, body, w) ==
    LET arr == loadFile(file)
        currentIndex == findIndexById(arr, id)
    IN  /\ variant \in FileVariants
        /\ IF currentIndex = 0
           THEN /\ w = "written"
                /\ db' = arr
                /\ last' = ErrorAnswer("PUT", id, body, 404, NotFoundMessage(variant, "PUT"))
                /\ UNCHANGED <<file, fails>>
           ELSE /\ WriteAllowed(w)
                /\ db' = [arr EXCEPT ![currentIndex] = body]
                /\ file' = FileAfterWrite(w, db')
                /\ fails' = FailsAfterWrite(w)
                /\ last' = JsonObject("PUT", id, body, 200, body)
        /\ UNCHANGED <<variant, nextUuid, now, pending>>

\* arr.splice(i, 1): the array without position i
SpliceOut(arr, i) == [j \in 1..(Len(arr) - 1) |-> IF j < i THEN arr[j] ELSE arr[j + 1]]

\* router.delete: xDB = loadX(); find and findIndex by id; 404 if not found;
\* deletado = xDB.splice(currentIndex, 1); saveX(); res.json(deletado)
FileDelete(id, w) ==
    LET arr == loadFile(file)
        currentIndex == findIndexById(arr, id)
    IN  /\ variant \in FileVariants
        /\ IF currentIndex = 0
           THEN /\ w = "written"
                /\ db' = arr
                /\ last' = ErrorAnswer("DELETE", id, <<>>, 404, NotFoundMessage(variant, "DELETE"))
                /\ UNCHANGED <<file, fails>>
           ELSE /\ WriteAllowed(w)
                /\ db' = SpliceOut(arr, currentIndex)
                /\ file' = FileAfterWrite(w, db')
                /\ fails' = FailsAfterWrite(w)
                /\ last' = JsonArray("DELETE", id, <<>>, 200, <<arr[currentIndex]>>)
        /\ UNCHANGED <<variant, nextUuid, now, pending>>

\* router.get('/id/:id') of teachersRoutes.js, part_001 and
\* appointmentsRoutes.js 1-333: xDB.find(x => x.id === id) on the array in
\* memory, which is not loaded again
FileGetById(id) ==
    LET i == findIndexById(db, id)
    IN  /\ variant \in FileVariants \ {Profissionais}
        /\ last' = IF i = 0
                   THEN ErrorAnswer("GET", id, <<>>, 404, NotFoundMessage(variant, "GET"))
                   ELSE JsonObject("GET", id, <<>>, 200, db[i])
        /\ UNCHANGED <<variant, db, file, nextUuid, now, pending, fails>>

\* router.get('/:id') of profissionaisRoutes.js: profissionaisDB is loaded
\* again first
ProfissionaisGetById(id) ==
    LET arr == loadFile(file)
        i   == findIndexById(arr, id)
    IN  /\ variant = Profissionais
        /\ db' = arr
        /\ last' = IF i = 0
                   THEN ErrorAnswer("GET", id, <<>>, 404, NotFoundMessage(Profissionais, "GET"))
                   ELSE JsonObject("GET", id, <<>>, 200, arr[i])
        /\ UNCHANGED <<variant, file, nextUuid, now, pending, fails>>

----------------------------------------------------------------------------
(* Handlers of the in-memory modules without await: studentsRoutes.js,     *)
(* part_000, appointmentsRoutes.js lines 335-695.  The handlers are the    *)
(* same up to the names and the field lists.                               *)

\* a validation that runs the camposValidos loop before the required-field
\* tests
ValidateUnknownFirst(v, o) ==
    IF FirstInvalid(v, o) # 0 THEN InvalidMessage(Keys(o)[FirstInvalid(v, o)])
    ELSE IF FirstMissing(v, o) # 0 THEN MissingMessage(v, FirstMissing(v, o))
    ELSE ""

\* the answer of the validation of o, "" if o passes: the required-field
\* tests in order, then the camposValidos loop
Validate(v, o) ==
    IF FirstMissing(v, o) # 0 THEN MissingMessage(v, FirstMissing(v, o))
    ELSE IF FirstInvalid(v, o) # 0 THEN InvalidMessage(Keys(o)[FirstInvalid(v, o)])
    ELSE ""

\* router.post('/'): x = req.body; x.id = uuidv4(); validation; xDB.push(x);
\* res.json(x)
MemPost(body) ==
    LET x == SetProp(body, "id", uuidv4(nextUuid))
    IN  /\ variant \in MemVariants \ {UsersMem}
        /\ nextUuid <= MaxUuid
        /\ nextUuid' = nextUuid + 1
        /\ IF Validate(variant, x) # ""
           THEN /\ last' = ErrorAnswer("POST", Undef, body, 400, Validate(variant, x))
                /\ UNCHANGED db
           ELSE /\ Len(db) < MaxLen
                /\ db' = Append(db, x)
                /\ last' = JsonObject("POST", Undef, body, 200, x)
        /\ UNCHANGED <<variant, file, now, pending, fails>>

\* router.put('/id/:id'): findIndex by id; 404 if not found;
\* x = req.body; x.id = xDB[index].id; validation; xDB[index] = x; res.json(x)
MemPut(id, body) ==
    LET index == findIndexById(db, id)
        x     == SetProp(body, "id", Get(db[index], "id"))
    IN  /\ variant \in MemVariants \ {UsersMem}
        /\ IF index = 0
           THEN /\ last' = ErrorAnswer("PUT", id, body, 404, NotFoundMessage(variant, "PUT"))
                /\ UNCHANGED db
           ELSE IF Validate(variant, x) # ""
           THEN /\ last' = ErrorAnswer("PUT", id, body, 400, Validate(variant, x))
                /\ UNCHANGED db
           ELSE /\ db' = [db EXCEPT ![index] = x]
                /\ last' = JsonObject("PUT", id, body, 200, x)
        /\ UNCHANGED <<variant, file, nextUuid, now, pending, fails>>

\* router.delete('/id/:id'): findIndex by id; 404 if not found;
\* deletado = xDB.splice(index, 1); res.json(deletado)
MemDelete(id) ==
    LET index == findIndexById(db, id)
    IN  /\ variant \in MemVariants \ {UsersMem}
        /\ IF index = 0
           THEN /\ last' = ErrorAnswer("DELETE", id, <<>>, 404, NotFoundMessage(variant, "DELETE"))
                /\ UNCHANGED db
           ELSE /\ db' = SpliceOut(db, index)
                /\ last' = JsonArray("DELETE", id, <<>>, 200, <<db[index]>>)
        /\ UNCHANGED <<variant, file, nextUuid, now, pending, fails>>

\* router.get('/id/:id'): xDB.find(x => x.id === id); 404 if not found
MemGetById(id) ==
    LET i == findIndexById(db, id)
    IN  /\ variant \in MemVariants \ {UsersMem}
        /\ last' = IF i = 0
                   THEN ErrorAnswer("GET", id, <<>>, 404, NotFoundMessage(variant, "GET"))
                   ELSE JsonObject("GET", id, <<>>, 200, db[i])
        /\ UNCHANGED <<variant, db, file, nextUuid, now, pending, fails>>

----------------------------------------------------------------------------
(* Handlers of usersRoutes.js.  POST and PUT wait for bcrypt.hash: the     *)
(* handler runs up to the await, other requests may be handled, and the    *)
(* rest of the handler runs when the hash is there.                        *)

\* the salts bcrypt may draw
Salts == {"s1", "s2"}

\* bcrypt.hash(pwd, saltRounds): a text made of the version, the cost, the
\* salt bcrypt drew and the digest of pwd under that salt
bcryptHash(pwd, salt) == "$2b$10$" \o salt \o "$" \o pwd

\* an empty slot of a sparse array: reading it gives undefined
Hole == <<<<"<empty slot>", Undef>>>>

\* arr[i] = x, for i at or beyond the end too: the array grows to length i
\* and the slots in between stay empty
ArrayAssign(arr, i, x) ==
    IF i <= Len(arr)
    THEN [arr EXCEPT ![i] = x]
    ELSE [j \in 1..i |-> IF j <= Len(arr) THEN arr[j] ELSE IF j = i THEN x ELSE Hole]

\* usersDB.find / findIndex(user => user.id === id) throws a TypeError when it
\* reaches an empty slot before a match: `user` is undefined there
LookupThrows(arr, id) ==
    \E i \in DOMAIN arr :
        /\ arr[i] = Hole
        /\ \A j \in 1..(i - 1) : Get(arr[j], "id") # id

\* a handler suspended at the await: the request, the object built so far
\* and, for PUT, the index found before the await
Suspended(op, id, body, x, index) ==
    [op |-> op, id |-> id, body |-> body, x |-> x, index |-> index]

\* router.post('/') up to `await bcrypt.hash(usuario.pwd, saltRounds)`
UsersPostBegin(body) ==
    LET usuario == SetProp(body, "id", uuidv4(nextUuid))
    IN  /\ variant = UsersMem
        /\ nextUuid <= MaxUuid
        /\ nextUuid' = nextUuid + 1
        /\ IF FirstMissing(UsersMem, usuario) # 0
           THEN /\ last' = ErrorAnswer("POST", Undef, body, 400,
                               MissingMessage(UsersMem, FirstMissing(UsersMem, usuario)))
                /\ UNCHANGED pending
           ELSE /\ Cardinality(pending) < MaxPending
                /\ pending' = pending \cup {Suspended("POST", Undef, body, usuario, 0)}
                /\ UNCHANGED last
        /\ UNCHANGED <<variant, db, file, now, fails>>

\* router.post('/') after the await, were the hash not stored: the camposValidos
\* loop; usersDB.push(usuario); res.json(usuario)
UsersPostEndPlain(p, salt) ==
    LET usuario == p.x
        campo   == FirstInvalid(UsersMem, usuario)
    IN  /\ variant = UsersMem
        /\ p \in pending
        /\ p.op = "POST"
        /\ pending' = pending \ {p}
        /\ IF campo # 0
           THEN /\ last' = ErrorAnswer("POST", Undef, p.body, 400,
                               InvalidMessage(Keys(usuario)[campo]))
                /\ UNCHANGED db
           ELSE /\ Len(db) < MaxLen
                /\ db' = Append(db, usuario)
                /\ last' = JsonObject("POST", Undef, p.body, 200, usuario)
        /\ UNCHANGED <<variant, file, nextUuid, now, fails>>

\* router.post('/') after the await: usuario.pwd = hashedPassword; the
\* camposValidos loop; usersDB.push(usuario); res.json(usuario)
UsersPostEnd(p, salt) ==
    LET usuario == SetProp(p.x, "pwd", bcryptHash(Get(p.x, "pwd"), salt))
        campo   == FirstInvalid(UsersMem, usuario)
    IN  /\ variant = UsersMem
        /\ p \in pending
        /\ p.op = "POST"
        /\ pending' = pending \ {p}
        /\ IF campo # 0
           THEN /\ last' = ErrorAnswer("POST", Undef, p.body, 400,
                               InvalidMessage(Keys(usuario)[campo]))
                /\ UNCHANGED db
           ELSE /\ Len(db) < MaxLen
                /\ db' = Append(db, usuario)
                /\ last' = JsonObject("POST", Undef, p.body, 200, usuario)
        /\ UNCHANGED <<variant, file, nextUuid, now, fails>>

\* router.put('/id/:id') up to `await bcrypt.hash(novoUsuario.pwd, saltRounds)`
UsersPutBegin(id, body) ==
    LET indiceUsuario == findIndexById(db, id)
        novoUsuario   == SetProp(body, "id", Get(db[indiceUsuario], "id"))
    IN  /\ variant = UsersMem
        /\ IF LookupThrows(db, id)
           THEN /\ last' = Thrown("PUT", id, body)
                /\ UNCHANGED pending
           ELSE IF indiceUsuario = 0
           THEN /\ last' = ErrorAnswer("PUT", id, body, 404, NotFoundMessage(UsersMem, "PUT"))
                /\ UNCHANGED pending
           ELSE IF FirstMissing(UsersMem, novoUsuario) # 0
           THEN /\ last' = ErrorAnswer("PUT", id, body, 400,
                               MissingMessage(UsersMem, FirstMissing(UsersMem, novoUsuario)))
                /\ UNCHANGED pending
           ELSE /\ Cardinality(pending) < MaxPending
                /\ pending' = pending \cup
                                {Suspended("PUT", id, body, novoUsuario, indiceUsuario)}
                /\ UNCHANGED last
        /\ UNCHANGED <<variant, db, file, nextUuid, now, fails>>

\* router.put('/id/:id') after the await: novoUsuario.pwd = hashedPassword;
\* the camposValidos loop; usersDB[indiceUsuario] = novoUsuario;
\* res.json(novoUsuario)
UsersPutEnd(p, salt) ==
    LET novoUsuario == SetProp(p.x, "pwd", bcryptHash(Get(p.x, "pwd"), salt))
        campo       == FirstInvalid(UsersMem, novoUsuario)
    IN  /\ variant = UsersMem
        /\ p \in pending
        /\ p.op = "PUT"
        /\ pending' = pending \ {p}
        /\ IF campo # 0
           THEN /\ last' = ErrorAnswer("PUT", p.id, p.body, 400,
                               InvalidMessage(Keys(novoUsuario)[campo]))
                /\ UNCHANGED db
           ELSE /\ db' = ArrayAssign(db, p.index, novoUsuario)
                /\ last' = JsonObject("PUT", p.id, p.body, 200, novoUsuario)
        /\ UNCHANGED <<variant, file, nextUuid, now, fails>>

\* router.delete('/id/:id')
UsersDelete(id) ==
    LET indiceUsuario == findIndexById(db, id)
    IN  /\ variant = UsersMem
        /\ IF LookupThrows(db, id)
           THEN /\ last' = Thrown("DELETE", id, <<>>)
                /\ UNCHANGED db
           ELSE IF indiceUsuario = 0
           THEN /\ last' = ErrorAnswer("DELETE", id, <<>>, 404,
                               NotFoundMessage(UsersMem, "DELETE"))
                /\ UNCHANGED db
           ELSE /\ db' = SpliceOut(db, indiceUsuario)
                /\ last' = JsonArray("DELETE", id, <<>>, 200, <<db[indiceUsuario]>>)
        /\ UNCHANGED <<variant, file, nextUuid, now, pending, fails>>

\* router.get('/id/:id')
UsersGetById(id) ==
    LET i == findIndexById(db, id)
    IN  /\ variant = UsersMem
        /\ last' = IF LookupThrows(db, id) THEN Thrown("GET", id, <<>>)
                   ELSE IF i = 0
                   THEN ErrorAnswer("GET", id, <<>>, 404, NotFoundMessage(UsersMem, "GET"))
                   ELSE JsonObject("GET", id, <<>>, 200, db[i])
        /\ UNCHANGED <<variant, db, file, nextUuid, now, pending, fails>>

----------------------------------------------------------------------------
(* Handlers of the events module (appointmentsRoutes.js lines 697-930).    *)
(* There is no array in memory: every handler reads the file, and getEvents *)
(* and saveEvents have no try/catch, so a handler throws when they do.     *)

\* { ...old, description: b.description, comments: b.comments, date: b.date }
WithEventFields(old, b) ==
    SetProp(SetProp(SetProp(old, "description", Get(b, "description")),
                    "comments", Get(b, "comments")),
            "date", Get(b, "date"))

\* router.post('/')
EventsPost(body, w) ==
    LET newEvent == WithEventFields(<<<<"id", DateNowToString(now)>>>>, body)
        events   == Append(file.data, newEvent)
    IN  /\ variant = Events
        /\ IF ~file.ok
           THEN /\ w = "written"
                /\ last' = Thrown("POST", Undef, body)
                /\ UNCHANGED <<file, fails>>
           ELSE /\ Len(file.data) < MaxLen
                /\ WriteAllowed(w)
                /\ file' = FileAfterWrite(w, events)
                /\ fails' = FailsAfterWrite(w)
                /\ last' = IF w = "written"
                           THEN JsonObject("POST", Undef, body, 201, newEvent)
                           ELSE Thrown("POST", Undef, body)
        /\ UNCHANGED <<variant, db, nextUuid, now, pending>>

\* router.put('/:id')
EventsPut(id, body, w) ==
    LET index        == findIndexById(file.data, id)
        updatedEvent == WithEventFields(file.data[index], body)
        events       == [file.data EXCEPT ![index] = updatedEvent]
    IN  /\ variant = Events
        /\ IF ~file.ok
           THEN /\ w = "written"
                /\ last' = Thrown("PUT", id, body)
                /\ UNCHANGED <<file, fails>>
           ELSE IF index = 0
           THEN /\ w = "written"
                /\ last' = ErrorAnswer("PUT", id, body, 404, NotFoundMessage(Events, "PUT"))
                /\ UNCHANGED <<file, fails>>
           ELSE /\ WriteAllowed(w)
                /\ file' = FileAfterWrite(w, events)
                /\ fails' = FailsAfterWrite(w)
                /\ last' = IF w = "written"
                           THEN JsonObject("PUT", id, body, 200, updatedEvent)
                           ELSE Thrown("PUT", id, body)
        /\ UNCHANGED <<variant, db, nextUuid, now, pending>>

\* router.delete('/:id'): events.filter(e => e.id !== id); saveEvents;
\* res.status(204).send()
EventsDelete(id, w) ==
    LET events == SelectSeq(file.data, LAMBDA e : Get(e, "id") # id)
    IN  /\ variant = Events
        /\ IF ~file.ok
           THEN /\ w = "written"
                /\ last' = Thrown("DELETE", id, <<>>)
                /\ UNCHANGED <<file, fails>>
           ELSE /\ WriteAllowed(w)
                /\ file' = FileAfterWrite(w, events)
                /\ fails' = FailsAfterWrite(w)
                /\ last' = IF w = "written"
                           THEN Answer("DELETE", id, <<>>, 204, "none", <<>>, "")
                           ELSE Thrown("DELETE", id, <<>>)
        /\ UNCHANGED <<variant, db, nextUuid, now, pending>>

\* router.get('/:id')
EventsGetById(id) ==
    LET i == findIndexById(file.data, id)
    IN  /\ variant = Events
        /\ last' = IF ~file.ok THEN Thrown("GET", id, <<>>)
                   ELSE IF i = 0
                   THEN ErrorAnswer("GET", id, <<>>, 404, NotFoundMessage(Events, "GET"))
                   ELSE JsonObject("GET", id, <<>>, 200, file.data[i])
        /\ UNCHANGED <<variant, db, file, nextUuid, now, pending, fails>>

----------------------------------------------------------------------------
(* Handlers that list the collection or look records up by a field *)

\* String.prototype.toLowerCase on the strings of the model
toLowerCase(s) == IF s = "A" THEN "a" ELSE s

\* the values a client asks for in a lookup by field
FieldQueries == {"A", "zz"}

\* the route parameter of a lookup, kept as the `body` of the request
Query(field, q) == <<<<field, q>>>>

\* r[field].toLowerCase() === q.toLowerCase(), per position of arr
FieldMatches(arr, field, q) ==
    [i \in DOMAIN arr |-> toLowerCase(Get(arr[i], field)) = toLowerCase(q)]

\* r[field].toLowerCase() throws a TypeError, per position of arr: the slot
\* is empty or the record has no such field
FieldThrows(arr, field) ==
    [i \in DOMAIN arr |-> arr[i] = Hole \/ Get(arr[i], field) = Undef]

\* router.get('/') of the modules that keep the array in memory: res.json(xDB)
\* (teachersRoutes.js, part_001, appointmentsRoutes.js 1-333 and the four
\* in-memory modules)
MemoryList ==
    /\ variant \in (MemVariants \cup FileVariants) \ {Profissionais}
    /\ last' = JsonArray("LIST", Undef, <<>>, 200, db)
    /\ UNCHANGED <<variant, db, file, nextUuid, now, pending, fails>>

\* router.get('/') of profissionaisRoutes.js: the file is loaded again first
ProfissionaisList ==
    /\ variant = Profissionais
    /\ db' = loadFile(file)
    /\ last' = JsonArray("LIST", Undef, <<>>, 200, loadFile(file))
    /\ UNCHANGED <<variant, file, nextUuid, now, pending, fails>>

\* router.get('/') of the events module: res.json(getEvents())
EventsList ==
    /\ variant = Events
    /\ last' = IF ~file.ok THEN Thrown("LIST", Undef, <<>>)
               ELSE JsonArray("LIST", Undef, <<>>, 200, file.data)
    /\ UNCHANGED <<variant, db, file, nextUuid, now, pending, fails>>

\* router.get('/name/:name') (users: '/nome/:name'):
\* xDB.find(x => x.name.toLowerCase() === name.toLowerCase()); 404 if none
GetByName(q) ==
    LET i == FirstPos(FieldMatches(db, "name", q))
        t == FirstPos(FieldThrows(db, "name"))
    IN  /\ variant \in {StudentsMem, StudentsFile, TeachersMem, TeachersFile, UsersMem}
        /\ last' = IF t # 0 /\ (i = 0 \/ t < i)
                   THEN Thrown("GET", Undef, Query("name", q))
                   ELSE IF i = 0
                   THEN ErrorAnswer("GET", Undef, Query("name", q), 404,
                                    NotFoundMessage(variant, "GET"))
                   ELSE JsonObject("GET", Undef, Query("name", q), 200, db[i])
        /\ UNCHANGED <<variant, db, file, nextUuid, now, pending, fails>>

\* router.get('/professional/:professional') of appointmentsRoutes.js 335-695
\* and router.get('/appointment/:appointment') of appointmentsRoutes.js 1-333:
\* appointmentsDB.filter(app => app[field].toLowerCase() === q.toLowerCase());
\* the 404 test `!appointments` is never true of an array
GetByField(field, q) ==
    LET hits == FieldMatches(db, field, q)
        all  == SelectSeq([i \in DOMAIN db |-> <<hits[i], db[i]>>], LAMBDA p : p[1])
    IN  /\ \/ variant = AppointmentsMem /\ field = "professional"
           \/ variant = AppointmentsFile /\ field = "appointment"
        /\ last' = IF FirstPos(FieldThrows(db, field)) # 0
                   THEN Thrown("GET", Undef, Query(field, q))
                   ELSE JsonArray("GET", Undef, Query(field, q), 200,
                                  [i \in DOMAIN all |-> all[i][2]])
        /\ UNCHANGED <<variant, db, file, nextUuid, now, pending, fails>>

\* time passes: Date.now() grows
Tick ==
    /\ variant = Events
    /\ now < MaxClock
    /\ now' = now + 1
    /\ UNCHANGED <<variant, db, file, nextUuid, pending, fails, last>>

----------------------------------------------------------------------------
(* The next-state relation: one request is handled, or a hash is ready,   *)
(* or time passes                                                          *)

Next ==
    \/ \E body \in Bodies(variant), w \in WriteOutcomes : FilePost(body, w)
    \/ \E id \in ClientIds, body \in Bodies(variant), w \in WriteOutcomes :
            FilePut(id, body, w)
    \/ \E id \in ClientIds, w \in WriteOutcomes : FileDelete(id, w)
    \/ \E id \in ClientIds : FileGetById(id)
    \/ \E id \in ClientIds : ProfissionaisGetById(id)
    \/ \E body \in Bodies(variant) : MemPost(body)
    \/ \E id \in ClientIds, body \in Bodies(variant) : MemPut(id, body)
    \/ \E id \in ClientIds : MemDelete(id)
    \/ \E id \in ClientIds : MemGetById(id)
    \/ \E body \in Bodies(variant) : UsersPostBegin(body)
    \/ \E p \in pending, salt \in Salts : UsersPostEnd(p, salt)
    \/ \E id \in ClientIds, body \in Bodies(variant) : UsersPutBegin(id, body)
    \/ \E p \in pending, salt \in Salts : UsersPutEnd(p, salt)
    \/ \E id \in ClientIds : UsersDelete(id)
    \/ \E id \in ClientIds : UsersGetById(id)
    \/ \E body \in Bodies(variant), w \in WriteOutcomes : EventsPost(body, w)
    \/ \E id \in ClientIds, body \in Bodies(variant), w \in WriteOutcomes :
            EventsPut(id, body, w)
    \/ \E id \in ClientIds, w \in WriteOutcomes : EventsDelete(id, w)
    \/ \E id \in ClientIds : EventsGetById(id)
    \/ MemoryList
    \/ ProfissionaisList
    \/ EventsList
    \/ \E q \in FieldQueries : GetByName(q)
    \/ \E q \in FieldQueries : GetByField("professional", q)
    \/ \E q \in FieldQueries : GetByField("appointment", q)
    \/ Tick

Spec == Init /\ [][Next]_vars

----------------------------------------------------------------------------
(* Requests as steps, and what a client can observe of the collection *)

\* the records of the collection: the array in memory, and for the events
\* module, which has none, the array in the file
Collection == IF variant = Events THEN file.data ELSE db

\* the array a writing handler starts from: the file-backed modules load the
\* file first, the others take the collection as it is
Loaded == IF variant \in FileVariants THEN loadFile(file) ELSE Collection

\* the answer reports success
Success(a) == a.status \in {200, 201, 204}

\* this step answers a POST of `body`
PostAnswered(body) ==
    \/ \E w \in WriteOutcomes : FilePost(body, w)
    \/ MemPost(body)
    \/ UsersPostBegin(body) /\ pending' = pending
    \/ \E p \in pending, salt \in Salts : p.body = body /\ UsersPostEnd(p, salt)
    \/ \E w \in WriteOutcomes : EventsPost(body, w)

\* this step answers a PUT of `body` to `id`
PutAnswered(id, body) ==
    \/ \E w \in WriteOutcomes : FilePut(id, body, w)
    \/ MemPut(id, body)
    \/ UsersPutBegin(id, body) /\ pending' = pending
    \/ \E p \in pending, salt \in Salts :
            p.id = id /\ p.body = body /\ UsersPutEnd(p, salt)
    \/ \E w \in WriteOutcomes : EventsPut(id, body, w)

\* this step answers a GET by `id`
GetAnswered(id) ==
    \/ FileGetById(id)
    \/ ProfissionaisGetById(id)
    \/ MemGetById(id)
    \/ UsersGetById(id)
    \/ EventsGetById(id)

\* the ids of the records a client could see before the step, in memory or
\* in the file
IdsBefore == (Range(IdsOf(db)) \cup Range(IdsOf(file.data))) \ {Undef}

----------------------------------------------------------------------------
(* Claims *)

\* C1: for every resource and every successful POST, the id of the returned
\* record differs from the id of every record that was in the collection
\* before the POST, whatever the body holds (its own id too) and however
\* quickly the creates follow each other.
C1_PostIdIsNew ==
    [][\A body \in Bodies(variant) :
          (PostAnswered(body) /\ Success(last'))
              => Get(last'.ret[1], "id") \notin IdsBefore]_vars

\* C2: for every resource, a successful PUT to id X leaves the record at the
\* replaced position with id X, also when the body holds another id or none.
C2_PutKeepsId ==
    [][\A id \in ClientIds, body \in Bodies(variant) :
          (PutAnswered(id, body) /\ Success(last'))
              => LET i == findIndexById(Loaded, id)
                 IN  /\ i \in DOMAIN Collection'
                     /\ Get(Loaded[i], "id") = id
                     /\ Get(Collection'[i], "id") = id]_vars

\* C3: for every resource, after a DELETE of id X that reports success, a GET
\* by id X that follows it immediately answers 404, whatever requests led to
\* the state the DELETE was made in.
C3_DeleteThenGetNotFound ==
    [][\A id \in ClientIds :
          (last.op = "DELETE" /\ last.id = id /\ Success(last) /\ GetAnswered(id))
              => last'.status = 404]_vars

\* a required field of the resource is absent from o, or falsy in it
LacksRequired(v, o) == \E f \in Range(RequiredFields(v)) : Falsy(Get(o, f))

\* o has a key that the allowed-field set of the resource does not include
HasUnknown(v, o) == \E k \in Range(Keys(o)) : k \notin camposValidos(v)

\* the request of this step can be looked at: the collection can be read,
\* and a PUT is addressed to a record that exists
Readable == variant = Events => file.ok
Addressable(id) ==
    /\ Readable
    /\ ~(variant = UsersMem /\ LookupThrows(db, id))
    /\ findIndexById(Loaded, id) # 0

\* the step answers 400 and leaves memory and the file as they were
Rejected == last'.status = 400 /\ db' = db /\ file' = file

\* C4: for every resource, a POST or a PUT whose payload lacks a required
\* field (absent or falsy) is answered 400 and leaves the collection, in
\* memory and in the file, as it was; a PUT on an existing teacher with a
\* body without 'status' is answered 400 "Professor precisa ter um 'status'".
C4_MissingRequiredRejected ==
    [][\A body \in Bodies(variant) :
          LacksRequired(variant, body) =>
              /\ (Readable /\ PostAnswered(body)) => Rejected
              /\ \A id \in ClientIds :
                    (Addressable(id) /\ PutAnswered(id, body)) =>
                        /\ Rejected
                        /\ (/\ variant \in {TeachersMem, TeachersFile}
                            /\ ~Has(body, "status")
                            /\ ~LacksRequired(variant, SetProp(body, "status", "a")))
                                => last'.err = "Professor precisa ter um 'status'"]_vars

\* C5: for every resource, a POST or a PUT whose payload has a key outside
\* the allowed-field set is answered 400 and leaves the collection, in memory
\* and in the file, as it was.
C5_UnknownKeyRejected ==
    [][\A body \in Bodies(variant) :
          HasUnknown(variant, body) =>
              /\ (Readable /\ PostAnswered(body)) => Rejected
              /\ \A id \in ClientIds :
                    (Addressable(id) /\ PutAnswered(id, body)) => Rejected]_vars

\* C6: for every resource, after a successful POST of payload P that returned
\* id G, a GET by id G returns a record whose fields are exactly those of P,
\* with the submitted values, plus id = G.
C6_PostThenGetRoundTrip ==
    [][(last.op = "POST" /\ Success(last)) =>
          LET G == Get(last.ret[1], "id")
          IN  GetAnswered(G) =>
                /\ last'.status = 200
                /\ AsMap(last'.ret[1]) = AsMap(SetProp(last.body, "id", G))]_vars

\* the records of arr: an empty slot of a sparse array is not a record
Records(arr) == {arr[i] : i \in DOMAIN arr} \ {Hole}

\* the records a client can be given: those in memory and those in the file
Stored == Records(db) \cup Records(file.data)

\* no two positions of arr hold records with the same id
DistinctIds(arr) ==
    \A i, j \in DOMAIN arr :
        (i # j /\ arr[i] # Hole /\ arr[j] # Hole)
            => Get(arr[i], "id") # Get(arr[j], "id")

\* C7: in every state reached by POST, PUT and DELETE requests from a
\* collection whose ids are pairwise distinct, the ids of the records of the
\* collection are pairwise distinct.
C7_IdsDistinct == DistinctIds(db) /\ DistinctIds(file.data)

\* C8: in every state reached by successful POST and PUT requests from a
\* collection whose records have all required fields present and non-empty,
\* every record of the collection has all required fields present and
\* non-empty.
C8_RequiredPresent == \A r \in Stored : ~LacksRequired(variant, r)

\* C9: in every state reached by successful POST and PUT requests from a
\* collection whose records only have allowed fields, no record of the
\* collection has a field outside the allowed-field set of its resource.
C9_OnlyAllowedFields == \A r \in Stored : ~HasUnknown(variant, r)

\* the id the generator of the module gave the POST that this step answers
IsGeneratedId(id) ==
    IF variant = Events THEN id = DateNowToString(now)
    ELSE \E n \in 1..MaxUuid : n < nextUuid' /\ id = uuidv4(n)

\* C10: a successful POST appends exactly one record at the end of the
\* collection and changes nothing else: the collection after the POST is the
\* collection before it followed by the returned record, the returned record
\* has the generated id, and the file then holds that same full sequence.
C10_PostAppendsAndPersists ==
    [][\A body \in Bodies(variant) :
          (PostAnswered(body) /\ Success(last')) =>
              /\ Collection' = Append(Collection, last'.ret[1])
              /\ IsGeneratedId(Get(last'.ret[1], "id"))
              /\ file'.ok
              /\ file'.data = Collection']_vars

\* this step answers a DELETE of `id`
DeleteAnswered(id) ==
    \/ \E w \in WriteOutcomes : FileDelete(id, w)
    \/ MemDelete(id)
    \/ UsersDelete(id)
    \/ \E w \in WriteOutcomes : EventsDelete(id, w)

\* the file holds the JSON text of the collection as it is after the step
FileRewritten == file'.ok /\ file'.data = Stringify(Collection')

\* C11: a successful PUT of id X changes only the position of the record with
\* id X: the collection keeps its length, every record at another position
\* is unchanged and stays at its position, the response is the record now
\* stored at that position, and the file is rewritten with the resulting
\* sequence.
C11_PutChangesOnePosition ==
    [][\A id \in ClientIds, body \in Bodies(variant) :
          (PutAnswered(id, body) /\ Success(last')) =>
              LET i == findIndexById(Loaded, id)
              IN  /\ i \in DOMAIN Loaded
                  /\ Len(Collection') = Len(Loaded)
                  /\ \A j \in DOMAIN Loaded : j # i => Collection'[j] = Loaded[j]
                  /\ last'.ret = <<StringifyObj(Collection'[i])>>
                  /\ FileRewritten]_vars

\* C12: a successful DELETE of an existing id X removes exactly one record,
\* the one with id X, keeps all other records in their relative order,
\* answers 200 with the removed record as a single-element array, and
\* rewrites the file with the resulting sequence.
C12_DeleteRemovesOne ==
    [][\A id \in ClientIds :
          (DeleteAnswered(id) /\ Success(last') /\ findIndexById(Loaded, id) # 0) =>
              LET i == findIndexById(Loaded, id)
              IN  /\ Collection' = SpliceOut(Loaded, i)
                  /\ last'.status = 200
                  /\ last'.shape = "array"
                  /\ last'.ret = <<StringifyObj(Loaded[i])>>
                  /\ FileRewritten]_vars

\* this step answers a request to list the collection
ListAnswered == MemoryList \/ ProfissionaisList \/ EventsList

\* C13: for every resource, a GET by id, a PUT or a DELETE addressed to an id
\* that no record of the collection has is answered 404 (for students GET by
\* id with the text "Estudante nao encontrado"); it is never answered with a
\* success status.
C13_UnknownIdNotFound ==
    [][\A id \in ClientIds :
          (/\ id \notin IdsBefore
           /\ Readable
           /\ ~(variant = UsersMem /\ LookupThrows(db, id))
           /\ \/ GetAnswered(id)
              \/ DeleteAnswered(id)
              \/ \E body \in Bodies(variant) : PutAnswered(id, body))
          => /\ last'.status = 404
             /\ (variant \in {StudentsMem, StudentsFile} /\ last'.op = "GET")
                    => last'.err = "Estudante nao encontrado"]_vars

\* C14: listing a collection always succeeds: when the file is missing or
\* does not parse as JSON, the list operation, and any request that loads
\* the file, treats the collection as the empty sequence and answers
\* normally instead of failing; for every file-backed resource, events too.
C14_LoadFailureIsEmpty ==
    [][~file.ok =>
          /\ ListAnswered =>
                /\ Success(last')
                /\ variant \in {Profissionais, Events} => last'.ret = <<>>
          /\ (\/ \E id \in ClientIds : GetAnswered(id) \/ DeleteAnswered(id)
              \/ \E body \in Bodies(variant) : PostAnswered(body)
              \/ \E id \in ClientIds, body \in Bodies(variant) : PutAnswered(id, body))
                => last'.status # 500]_vars

----------------------------------------------------------------------------
(* The modules that validate the payload, on their own: studentsRoutes.js, *)
(* part_000, usersRoutes.js and appointmentsRoutes.js lines 335-695        *)

InitValidating == Init /\ variant \in MemVariants

NextValidating ==
    \/ \E body \in Bodies(variant) : MemPost(body)
    \/ \E id \in ClientIds, body \in Bodies(variant) : MemPut(id, body)
    \/ \E id \in ClientIds : MemDelete(id)
    \/ \E id \in ClientIds : MemGetById(id)
    \/ \E body \in Bodies(variant) : UsersPostBegin(body)
    \/ \E p \in pending, salt \in Salts : UsersPostEnd(p, salt)
    \/ \E id \in ClientIds, body \in Bodies(variant) : UsersPutBegin(id, body)
    \/ \E p \in pending, salt \in Salts : UsersPutEnd(p, salt)
    \/ \E id \in ClientIds : UsersDelete(id)
    \/ \E id \in ClientIds : UsersGetById(id)
    \/ MemoryList
    \/ \E q \in FieldQueries : GetByName(q)
    \/ \E q \in FieldQueries : GetByField("professional", q)

SpecValidating == InitValidating /\ [][NextValidating]_vars

\* the text names the first required field, in the declared order of the
\* resource, that o lacks
NamesFirstMissing(v, o, text) ==
    \E i \in DOMAIN RequiredFields(v) :
        /\ Falsy(Get(o, RequiredFields(v)[i]))
        /\ \A j \in 1..(i - 1) : ~Falsy(Get(o, RequiredFields(v)[j]))
        /\ text = MissingMessage(v, i)

\* the text names the first key of o, in the key order of o, that is not an
\* allowed field
NamesFirstUnknown(v, o, text) ==
    \E k \in DOMAIN o :
        /\ Keys(o)[k] \notin camposValidos(v)
        /\ \A j \in 1..(k - 1) : Keys(o)[j] \in camposValidos(v)
        /\ text = InvalidMessage(Keys(o)[k])

\* C15: validation tests the required fields before the allowed fields and
\* reports the first violation only: the 400 answer to a payload that lacks
\* required fields, with or without unknown keys, names the first missing
\* required field in the declared order, never an unknown key; the 400
\* answer to a payload with all required fields and unknown keys names the
\* first unknown key in the key order of the payload.
C15_FirstViolationReported ==
    (last.op \in {"POST", "PUT"} /\ last.status = 400)
        => IF LacksRequired(variant, last.body)
           THEN NamesFirstMissing(variant, last.body, last.err)
           ELSE NamesFirstUnknown(variant, last.body, last.err)

\* a payload without its first required field and with an unknown key was
\* answered 400 with the text of the missing field
C15_Witness ==
    /\ last.status = 400
    /\ LacksRequired(variant, last.body)
    /\ HasUnknown(variant, last.body)
    /\ last.err = MissingMessage(variant, 1)

\* the records of arr whose `field` equals q ignoring letter case, in the
\* order of arr
AllWithField(arr, field, q) ==
    SelectSeq(arr, LAMBDA r : /\ r # Hole
                              /\ Has(r, field)
                              /\ toLowerCase(Get(r, field)) = toLowerCase(q))

\* C16: a lookup by name or by professional returns the sequence of all
\* records of the collection whose field equals the requested value ignoring
\* letter case, in collection order, and no other record (no record at all,
\* as an empty sequence or as not-found, when none has the value).
C16_LookupReturnsAllMatches ==
    [][\A q \in FieldQueries :
          (\/ GetByName(q)
           \/ GetByField("professional", q)
           \/ GetByField("appointment", q))
          => LET all == AllWithField(db, last'.body[1][1], q)
             IN  /\ last'.status \in {200, 404}
                 /\ last'.ret = Stringify(all)
                 /\ last'.status = 404 => all = <<>>]_vars

\* C17: every write is all-or-nothing with respect to memory and disk: after
\* a POST, PUT or DELETE handler finishes, the collection in memory and the
\* file both reflect the mutation or neither does; in no reachable state
\* does the collection in memory hold a change that the file does not.
C17_MemoryMatchesFile ==
    (variant # Events /\ pending = {}) => Stringify(db) = loadFile(file)

----------------------------------------------------------------------------
(* The file-backed modules on their own: teachersRoutes.js, part_001,      *)
(* appointmentsRoutes.js lines 1-333 and profissionaisRoutes.js            *)

InitFileBacked == Init /\ variant \in FileVariants

NextFileBacked ==
    \/ \E body \in Bodies(variant), w \in WriteOutcomes : FilePost(body, w)
    \/ \E id \in ClientIds, body \in Bodies(variant), w \in WriteOutcomes :
            FilePut(id, body, w)
    \/ \E id \in ClientIds, w \in WriteOutcomes : FileDelete(id, w)
    \/ \E id \in ClientIds : FileGetById(id)
    \/ \E id \in ClientIds : ProfissionaisGetById(id)
    \/ MemoryList
    \/ ProfissionaisList
    \/ \E q \in FieldQueries : GetByName(q)
    \/ \E q \in FieldQueries : GetByField("appointment", q)

SpecFileBacked == InitFileBacked /\ [][NextFileBacked]_vars

\* the write of the file failed in this step of a file-backed module
WriteFailed == variant \in FileVariants /\ fails' # fails

\* the array in memory after the step is the loaded array with the mutation
\* of the request that the step answers
MutationKept ==
    LET i == findIndexById(Loaded, last'.id)
    IN  CASE last'.op = "POST" ->
               /\ Len(db') = Len(Loaded) + 1
               /\ SubSeq(db', 1, Len(Loaded)) = Loaded
               /\ Without(db'[Len(db')], "id") = Without(last'.body, "id")
          [] last'.op = "PUT" ->
               /\ i # 0
               /\ db' = [Loaded EXCEPT ![i] = last'.body]
          [] last'.op = "DELETE" ->
               /\ i # 0
               /\ db' = SpliceOut(Loaded, i)
          [] OTHER -> FALSE

\* the answer is the one the request gets when the write succeeds: 200 with
\* the new record, the stored body, or the removed record in an array
AnsweredAsWritten ==
    LET i == findIndexById(Loaded, last'.id)
    IN  /\ last'.status = 200
        /\ last'.err = ""
        /\ last'.ret = CASE last'.op = "POST" -> <<StringifyObj(db'[Len(db')])>>
                         [] last'.op = "PUT" -> <<StringifyObj(last'.body)>>
                         [] last'.op = "DELETE" -> <<StringifyObj(Loaded[i])>>
                         [] OTHER -> <<>>

\* C18: in the file-backed modules, when writing the file fails during a
\* POST, PUT or DELETE, the handler still answers with the success response,
\* the collection in memory keeps the mutation, and the file keeps its
\* previous content; the failure shows only in the text saveX() returns.
C18_FailedWriteKeepsFile ==
    [][WriteFailed => (MutationKept /\ AnsweredAsWritten /\ file' = file)]_vars

\* C18 as amended: the same, except that the file either keeps its previous
\* content or, when the write fails after the file was opened, is left with
\* text that is not JSON.
C18_FailedWriteKeepsMemory ==
    [][WriteFailed =>
          (MutationKept /\ AnsweredAsWritten /\ (file' = file \/ ~file'.ok))]_vars

\* a write failed, the request was answered 200, and memory holds what the
\* file does not
C18_Witness ==
    /\ variant \in FileVariants
    /\ fails > 0
    /\ last.op \in {"POST", "PUT", "DELETE"}
    /\ last.status = 200
    /\ Stringify(db) # loadFile(file)

----------------------------------------------------------------------------
(* Two server processes that share the JSON file.  The handlers above are  *)
(* those of the first process.  Of the second process the model follows    *)
(* one POST at a time, split where the first process can run in between:   *)
(* it loads the file and pushes its record, and later it saves.  Its array *)
(* is kept in `pending` (x: the array, index: the position of the record). *)

\* the body the second process is sent
OtherBody(v) == MakeBody(v, Undef, "A", {}, {}, <<>>)

\* router.post('/') of the second process up to the save: the record is
\* built and pushed onto the array it has just loaded
OtherPostLoad ==
    LET body   == OtherBody(variant)
        loaded == IF variant = Events THEN file.data ELSE loadFile(file)
        newRec == IF variant = Events
                  THEN WithEventFields(<<<<"id", DateNowToString(now)>>>>, body)
                  ELSE SpreadWithId(uuidv4(nextUuid), body)
    IN  /\ variant \in FileVariants \cup {Events}
        /\ variant = Events => file.ok
        /\ variant # Events => nextUuid <= MaxUuid
        /\ pending = {}
        /\ Len(loaded) < MaxLen
        /\ pending' = {Suspended("POST", Undef, body, Append(loaded, newRec),
                                 Len(loaded) + 1)}
        /\ nextUuid' = IF variant = Events THEN nextUuid ELSE nextUuid + 1
        /\ UNCHANGED <<variant, db, file, now, fails, last>>

\* a save of the second process under a lock held from the load on: no other
\* request has written the file in between, so it writes the file as it is
\* now plus its record
OtherPostSaveLocked(p) ==
    /\ variant \in FileVariants \cup {Events}
    /\ p \in pending
    /\ pending' = pending \ {p}
    /\ file' = FileOf(Stringify(Append(loadFile(file), p.x[p.index])))
    /\ last' = JsonObject("POST", Undef, p.body,
                          IF variant = Events THEN 201 ELSE 200, p.x[p.index])
    /\ UNCHANGED <<variant, db, nextUuid, now, fails>>

\* router.post('/') of the second process from the save on: the whole array
\* is written over the file and the new record is the answer
OtherPostSave(p) ==
    /\ variant \in FileVariants \cup {Events}
    /\ p \in pending
    /\ pending' = pending \ {p}
    /\ file' = FileOf(Stringify(p.x))
    /\ last' = JsonObject("POST", Undef, p.body,
                          IF variant = Events THEN 201 ELSE 200, p.x[p.index])
    /\ UNCHANGED <<variant, db, nextUuid, now, fails>>

InitShared == Init /\ variant \in FileVariants \cup {Events}

NextShared ==
    \/ \E body \in Bodies(variant) : FilePost(body, "written")
    \/ \E id \in ClientIds, body \in Bodies(variant) : FilePut(id, body, "written")
    \/ \E id \in ClientIds : FileDelete(id, "written")
    \/ \E id \in ClientIds : FileGetById(id)
    \/ \E id \in ClientIds : ProfissionaisGetById(id)
    \/ \E body \in Bodies(variant) : EventsPost(body, "written")
    \/ \E id \in ClientIds, body \in Bodies(variant) : EventsPut(id, body, "written")
    \/ \E id \in ClientIds : EventsDelete(id, "written")
    \/ \E id \in ClientIds : EventsGetById(id)
    \/ Tick
    \/ OtherPostLoad
    \/ \E p \in pending : OtherPostSave(p)

SpecShared == InitShared /\ [][NextShared]_vars

\* the records that were written to the file after the second process
\* loaded it: they are in the file and not in the array of p
WrittenSince(p) == Records(file.data) \ Records(SubSeq(p.x, 1, Len(p.x) - 1))

\* C19: when two mutating requests on the same file interleave their load,
\* mutate and save steps (two server processes that share the file), there
\* is a reachable execution in which both report success and the file holds
\* the effect of one of them only.  Stated for every such execution: the
\* save of the second process reports success, and no record that a request
\* of the first process wrote to the file since the second process loaded
\* it is in the file afterwards, unless the second process stored an equal
\* record itself.
C19_StaleSaveLosesUpdates ==
    [][\A p \in pending :
          OtherPostSave(p) =>
              /\ Success(last')
              /\ \A r \in WrittenSince(p) :
                    r \in Records(file'.data) => r = StringifyObj(p.x[p.index])]_vars

\* a lost update: no write failed, the second process has just been answered
\* 200 for its POST, the first process holds in memory the record that its
\* own POST stored and answered with, and the file holds the record of the
\* second process but not that of the first
C19_Witness ==
    /\ variant \in FileVariants
    /\ fails = 0
    /\ file.ok
    /\ last.op = "POST"
    /\ last.status = 200
    /\ last.ret[1] \in Records(file.data)
    /\ \E r \in Records(db) :
          /\ Get(r, "id") \in Range(UuidTable)
          /\ StringifyObj(r) \notin Records(file.data)
          /\ StringifyObj(r) # last.ret[1]

\* this step is the end of the suspended users PUT p, answered 200: the
\* assignment usersDB[indiceUsuario] = novoUsuario has been made
UsersPutStored(p) ==
    /\ variant = UsersMem
    /\ p.op = "PUT"
    /\ pending' = pending \ {p}
    /\ last'.op = "PUT"
    /\ last'.status = 200

\* C20: within one process a handler runs to completion before the effects
\* of any other request become visible, so no handler is affected by a
\* change made between its first read and its final write, the users POST
\* and PUT handlers included: when a users PUT makes its assignment, the
\* position it found at its first read still holds the record with the id
\* of the request.
C20_NoChangeBetweenReadAndWrite ==
    [][\A p \in pending :
          UsersPutStored(p) =>
              /\ p.index \in DOMAIN db
              /\ db[p.index] # Hole
              /\ Get(db[p.index], "id") = p.id]_vars

----------------------------------------------------------------------------
(* The appointment lookups that answer a list *)

\* the records of arr whose date is q: app.date === date, no case folding
AllWithDate(arr, q) == SelectSeq(arr, LAMBDA r : Get(r, "date") = q)

\* router.get('/date/:date') of both appointment modules:
\* appointmentsDB.filter(app => app.date === date); the 404 test
\* `!appointments` is never true of an array
GetByDate(q) ==
    /\ variant \in {AppointmentsMem, AppointmentsFile}
    /\ last' = JsonArray("GET", Undef, Query("date", q), 200, AllWithDate(db, q))
    /\ UNCHANGED <<variant, db, file, nextUuid, now, pending, fails>>

InitAppointments == Init /\ variant \in {AppointmentsMem, AppointmentsFile}

NextAppointments ==
    \/ \E body \in Bodies(variant) : MemPost(body)
    \/ \E id \in ClientIds, body \in Bodies(variant) : MemPut(id, body)
    \/ \E id \in ClientIds : MemDelete(id)
    \/ \E body \in Bodies(variant), w \in WriteOutcomes : FilePost(body, w)
    \/ \E id \in ClientIds, body \in Bodies(variant), w \in WriteOutcomes :
          FilePut(id, body, w)
    \/ \E id \in ClientIds, w \in WriteOutcomes : FileDelete(id, w)
    \/ \E q \in FieldQueries : GetByField("professional", q)
    \/ \E q \in FieldQueries : GetByField("appointment", q)
    \/ \E q \in FieldQueries : GetByDate(q)

SpecAppointments == InitAppointments /\ [][NextAppointments]_vars

\* the records of memory that the lookup of `field` for q matches
Matching(field, q) ==
    IF field = "date" THEN AllWithDate(db, q) ELSE AllWithField(db, field, q)

\* this step answers the lookup of `field` for q
LookupAnswered(field, q) ==
    IF field = "date" THEN GetByDate(q) ELSE GetByField(field, q)

\* C21: an appointment lookup by professional name or by date that matches
\* no appointment is answered 404 with an error body; it is answered 200
\* with a list only when at least one appointment matches.
C21_EmptyLookupNotFound ==
    [][\A field \in {"professional", "date"}, q \in FieldQueries :
          LookupAnswered(field, q) =>
              IF Matching(field, q) = <<>>
              THEN last'.status = 404 /\ last'.shape = "error"
              ELSE last'.status = 200 /\ last'.shape = "array"]_vars

\* C22: the id stored for a newly created record is always the one the
\* identifier generator produced during that POST; an id that the client
\* put in the POST body is never the id of the stored record, in every
\* resource variant.
C22_ClientIdNeverStored ==
    [][\A body \in Bodies(variant) :
          (PostAnswered(body) /\ Success(last')) =>
              LET stored == Collection'[Len(Collection')]
              IN  /\ IsGeneratedId(Get(stored, "id"))
                  /\ Has(body, "id") => Get(stored, "id") # Get(body, "id")]_vars

\* C23: in the users module a successful PUT to id X overwrites the record
\* whose id is X and no other record, and never writes at a position beyond
\* the end of the collection, also when a DELETE or POST on users completes
\* while the PUT waits for the password hash.
C23_PutOverwritesOwnRecord ==
    [][\A p \in pending :
          UsersPutStored(p) =>
              /\ Len(db') = Len(db)
              /\ \A i \in DOMAIN db :
                    db'[i] # db[i] => (db[i] # Hole /\ Get(db[i], "id") = p.id)]_vars

\* the array a GET by id searches: the events module reads the file, the
\* profissionais module loads the file again, the others search memory
GetSource ==
    IF variant = Events THEN file.data
    ELSE IF variant = Profissionais THEN loadFile(file)
    ELSE db

\* a GET by id g would answer 200
Retrievable(g) ==
    /\ Readable
    /\ ~(variant = UsersMem /\ LookupThrows(db, g))
    /\ findIndexById(GetSource, g) # 0

\* the ids the generator of the module gives: a record has one of them only
\* through a POST
PostedIds ==
    IF variant = Events THEN {DateNowToString(t) : t \in 0..MaxClock}
    ELSE Range(UuidTable)

\* C24: once a POST has answered success with id G, the record stays
\* retrievable by GET by id G until a DELETE or PUT addressed to G is
\* handled; no other request (a POST, a PUT or DELETE on another id or
\* answered 404), no failed write of the file and no failed load makes it
\* disappear.
C24_PostedRecordStays ==
    [][\A g \in PostedIds :
          (Retrievable(g) /\ ~(last'.op \in {"PUT", "DELETE"} /\ last'.id = g))
              => Retrievable(g)']_vars

\* C25: a PUT or DELETE that is answered 404 leaves the state unchanged: the
\* collection in memory and the file are the same before and after the
\* request, in every resource variant and from every reachable state, those
\* where memory and file differ after a failed save included.
C25_NotFoundChangesNothing ==
    [][(last'.op \in {"PUT", "DELETE"} /\ last'.status = 404)
          => (db' = db /\ file' = file)]_vars

\* C26: in every state that POST, PUT and DELETE requests can lead to, every
\* record of every collection has an id field that holds a string, so that
\* every stored record can be addressed by GET, PUT and DELETE by id.
C26_EveryRecordHasId ==
    \A r \in Stored : Has(r, "id") /\ Get(r, "id") \notin {Undef, ""}

\* C27: PUT is idempotent: the same valid PUT (same id, same body) sent twice
\* in a row leaves the collection as sending it once does, and both answers
\* carry the same record; this holds for students, teachers, appointments,
\* profissionais, events and users.
C27_PutIdempotent ==
    [][(/\ last.op = "PUT"
        /\ last.status = 200
        /\ last'.op = "PUT"
        /\ last'.id = last.id
        /\ last'.body = last.body)
          => (Collection' = Collection /\ last'.status = 200 /\ last'.ret = last.ret)]_vars

----------------------------------------------------------------------------
(* The users module on its own *)

InitUsers == Init /\ variant = UsersMem

NextUsers ==
    \/ \E body \in Bodies(variant) : UsersPostBegin(body)
    \/ \E p \in pending, salt \in Salts : UsersPostEnd(p, salt)
    \/ \E id \in ClientIds, body \in Bodies(variant) : UsersPutBegin(id, body)
    \/ \E p \in pending, salt \in Salts : UsersPutEnd(p, salt)
    \/ \E id \in ClientIds : UsersDelete(id)
    \/ \E id \in ClientIds : UsersGetById(id)
    \/ MemoryList
    \/ \E q \in FieldQueries : GetByName(q)

SpecUsers == InitUsers /\ [][NextUsers]_vars

\* the texts bcrypt.hash can give for pwd
HashesOf(pwd) == {bcryptHash(pwd, salt) : salt \in Salts}

\* the pwd values that requests submit
SubmittedPwds == {Get(b, "pwd") : b \in Bodies(UsersMem)} \ {Undef}

\* the pwd of r is the hash of a submitted pwd, or of the seed record's
HashedPwd(r) ==
    \/ \E pwd \in SubmittedPwds : Get(r, "pwd") \in HashesOf(pwd)
    \/ Get(r, "pwd") = Get(SeedRecord(UsersMem), "pwd")

\* the latest answer is that of a successful users POST or PUT
UsersStored ==
    /\ variant = UsersMem
    /\ last.op \in {"POST", "PUT"}
    /\ last.status = 200

\* C28: in the users module the pwd that a successful POST or PUT stores is
\* the hash of the submitted pwd and never the submitted plain text, and a
\* request rejected with 400 or 404 stores nothing; in every reachable state
\* no record created or replaced through the API holds a plain-text pwd.
C28_PwdStoredHashed ==
    /\ [](variant = UsersMem =>
            /\ \A r \in Records(db) :
                  HashedPwd(r) /\ Get(r, "pwd") \notin SubmittedPwds
            /\ UsersStored =>
                  /\ Get(last.ret[1], "pwd") \in HashesOf(Get(last.body, "pwd"))
                  /\ Get(last.ret[1], "pwd") # Get(last.body, "pwd"))
    /\ [][(/\ variant = UsersMem
           /\ last'.op \in {"POST", "PUT"}
           /\ last'.status \in {400, 404}) => db' = db]_vars

\* a users POST has just stored a record: the last record in memory is the
\* one of the answer and holds the hash of the submitted pwd
C28_Witness ==
    /\ UsersStored
    /\ last.op = "POST"
    /\ Len(db) = MaxLen
    /\ Get(db[Len(db)], "pwd") \in HashesOf(Get(last.body, "pwd"))
    /\ Get(db[Len(db)], "id") = Get(last.ret[1], "id")

\* no record in memory has this id
NoRecordWithId(id) == \A r \in Records(db) : Get(r, "id") # id

\* this step answers a PUT of a validating module in the same step as it
\* looks the id up: no handler is suspended or resumed in the step
ValidatingPutAnswered ==
    /\ variant \in MemVariants
    /\ last'.op = "PUT"
    /\ pending' = pending

\* C29: in the validating variants not-found comes before validation on PUT:
\* a PUT addressed to an id that no record has is answered 404 whatever the
\* body, also a body that lacks required fields or has unknown keys, and a
\* validation error (400) is reported for existing ids only.
C29_NotFoundBeforeValidation ==
    [][ValidatingPutAnswered =>
          /\ NoRecordWithId(last'.id) => last'.status = 404
          /\ last'.status = 400 => ~NoRecordWithId(last'.id)]_vars

====
